---- MODULE Spec2Model ----
(***************************************************************************)
(* A model of the sf-events scrape / geocode / upsert pipeline and of the  *)
(* server that triggers it.                                                *)
(*                                                                         *)
(* The module holds nine specifications over disjoint groups of            *)
(* variables:                                                              *)
(*   SpecServer   - the asyncio event loop of server_db.py with the three  *)
(*                  sources of pipeline runs (startup initial scrape,      *)
(*                  periodic task, POST /api/scrape);                      *)
(*   SpecGeo      - the two geocode clients (EventScraper.geocode_venue    *)
(*                  and VenueGeocoder.geocode_location);                   *)
(*   SpecUpsert   - scrape_and_update's record loop over a SQLAlchemy      *)
(*                  session, with DatabaseUpdater's upsert, fed with any   *)
(*                  records and any geocode outcomes;                      *)
(*   SpecReplay   - the same loop fed with one batch in every run;         *)
(*   SpecRate     - the clock and the outbound requests of the geocode     *)
(*                  clients;                                               *)
(*   SpecPipeline - whole runs of scrape_and_update: fetch, date filter,   *)
(*                  record loop with the geocode step, commit, pruning;    *)
(*   SpecSharing  - the record loop fed with records that share venue,     *)
(*                  genres and promoters;                                  *)
(*   SpecParse    - the two row extractors (EventScraper.parse_events and  *)
(*                  parse_19hz_html) over small documents;                 *)
(*   SpecCron     - trigger_scrape of run_scraper.py, the cron job.        *)
(* SpecServerFair is SpecServer with the fairness of the event loop.       *)
(***************************************************************************)
EXTENDS Integers, Sequences, FiniteSets, TLC

VARIABLES
    \* ---- server_db.py: event loop and scraping_status ----
    loop,           \* the task that holds the event-loop thread, or Idle
    pc,             \* position of every task
    is_scraping,    \* scraping_status["is_scraping"]
    last_scrape,    \* scraping_status["last_scrape"]: the task that set it, or Idle
    response,       \* answer given to each POST /api/scrape
    arrivedDuring,  \* history: a run was in progress when the request arrived
    periodicLast,   \* history: how the last run of the periodic task ended
    \* ---- geocode clients ----
    client,         \* which geocode client the behaviour exercises
    geocode_cache,  \* EventScraper.geocode_cache
    cache,          \* VenueGeocoder.cache
    lastCall,       \* the last resolve call: arguments, requests sent, result
    \* ---- the clock and the rate limit of the geocode clients ----
    limiter,        \* which client's requests the behaviour times
    now,            \* time.time(), in ticks
    last_request_time, \* VenueGeocoder.last_request_time
    rpc,            \* position inside a resolve on a cache miss
    sent,           \* history: the last two outbound requests (time, query)
    \* ---- scrape_and_update's record loop over the store ----
    db,             \* events.db: the committed tables
    tx,             \* the tables as the open session sees and holds them
    venue_cache,    \* DatabaseUpdater.venue_cache
    genre_cache,    \* DatabaseUpdater.genre_cache
    promoter_cache, \* DatabaseUpdater.promoter_cache
    phase,          \* "idle" between runs, "loop" inside the record loop
    run,            \* number of runs started
    idx,            \* enumerate index of the record loop
    batch,          \* the input batch, when the behaviour replays a batch
    counts,         \* history: row counts at the end of each finished run
    lastUp,         \* history: the last update_or_create_event call
    \* ---- a whole run of scrape_and_update ----
    today,          \* datetime.now().date() of the run, as a day number
    all_events,     \* what parse_events returned in the run
    events,         \* the records that passed the date filter
    venue_coords_cache, \* coordinates known to the run, by 'venue|city'
    outcome,        \* history: "ok" or "failed" for each record of the loop
    escaped,        \* an exception has left the record loop
    lastRun,        \* history: how the last run ended
    geoLog,         \* history: the geocode step of each record of the loop
    \* ---- the extractors ----
    parser,         \* which extractor runs: parse_events or parse_19hz_html
    all_rows,       \* the <tr> elements of the document, in document order
    rowNo,          \* number of rows the extractor's loop has gone through
    parsed,         \* the list the extractor builds: (row number, record)
    parseFailed,    \* an exception has left the extractor
    \* ---- run_scraper.py: the cron trigger ----
    attempt,        \* the loop variable of trigger_scrape
    cron,           \* position inside trigger_scrape
    wake_response,  \* the answer to the health check of the attempt
    cronLog,        \* history: the requests of every attempt that has ended
    waits,          \* history: number of time.sleep(10) calls
    cronError       \* the exception that left trigger_scrape, if any

serverVars == <<loop, pc, is_scraping, last_scrape, response, arrivedDuring,
                periodicLast>>
geoVars == <<client, geocode_cache, cache, lastCall>>
rateVars == <<limiter, now, last_request_time, rpc, sent>>
storeVars == <<db, tx, venue_cache, genre_cache, promoter_cache, phase, run, idx,
               batch, counts, lastUp>>
pipeVars == <<today, all_events, events, venue_coords_cache, outcome, escaped, lastRun,
              geoLog>>

parseVars == <<parser, all_rows, rowNo, parsed, parseFailed>>

cronVars == <<attempt, cron, wake_response, cronLog, waits, cronError>>

vars == <<serverVars, geoVars, rateVars, storeVars, pipeVars, parseVars, cronVars>>

-----------------------------------------------------------------------------
(***************************************************************************)
(* Part 1.  server_db.py: the event loop and the three run triggers.       *)
(***************************************************************************)

\* Number of POST /api/scrape requests a behaviour may contain.
MaxRequests == 2

Idle == <<"idle", 0>>
InitialScrape == <<"initial_scrape", 0>>
Periodic == <<"run_periodic_scraping", 0>>
Requests == {<<"trigger_scrape", i>> : i \in 1..MaxRequests}
Tasks == {InitialScrape, Periodic} \cup Requests

\* Positions inside scrape_and_update.
RunPositions == {"fetch", "records", "prune"}

\* Positions of scrape_and_update at which the coroutine suspends and gives
\* the event-loop thread back.  The body contains no await: its waits are
\* time.sleep and blocking requests calls.
RunAwaitPointsAsync == {"records"}
RunAwaitPoints == {}

\* Positions at which a task is suspended, not yet started or finished.
TaskAwaitPoints == {"created", "sleep5", "sleep12h", "done", "unsent", "arrived", "answered"}

Running(t) == pc[t] \in RunPositions

\* The event loop runs a task only when no other task holds the thread.
CanRun(t) == loop = t \/ loop = Idle

\* After a step that leaves task t at position p, who holds the thread.
Yield(t, p) == IF p \in TaskAwaitPoints \cup RunAwaitPoints THEN Idle ELSE t

InitServer ==
    /\ loop = Idle
    /\ pc = [t \in Tasks |->
                IF t = InitialScrape THEN "sleep5"
                ELSE IF t = Periodic THEN "created"
                ELSE "unsent"]
    /\ is_scraping = FALSE
    /\ last_scrape = Idle
    /\ response = [r \in Requests |-> "none"]
    /\ arrivedDuring = [r \in Requests |-> FALSE]
    /\ periodicLast = "none"

\* A client sends POST /api/scrape; the request waits for the event loop.
RequestArrives(r) ==
    /\ pc[r] = "unsent"
    /\ pc' = [pc EXCEPT ![r] = "arrived"]
    /\ arrivedDuring' = [arrivedDuring EXCEPT ![r] = \E t \in Tasks : Running(t)]
    /\ UNCHANGED <<loop, is_scraping, last_scrape, response, periodicLast>>

\* trigger_scrape up to the await: the flag check and the flag set.
TriggerScrapeBegin(r) ==
    /\ pc[r] = "arrived"
    /\ CanRun(r)
    /\ IF is_scraping
       THEN /\ response' = [response EXCEPT ![r] = "already_running"]
            /\ pc' = [pc EXCEPT ![r] = "answered"]
            /\ loop' = Yield(r, "answered")
            /\ UNCHANGED is_scraping
       ELSE /\ is_scraping' = TRUE
            /\ pc' = [pc EXCEPT ![r] = "fetch"]
            /\ loop' = Yield(r, "fetch")
            /\ UNCHANGED response
    /\ UNCHANGED <<last_scrape, arrivedDuring, periodicLast>>

\* What trigger_scrape answers: the 'success' body after a run that
\* returned, HTTPException(status_code=500, detail=str(e)) after one that
\* raised.
AnswerSuccess(p) == "success"
Answer(p) == IF p = "ret_ok" THEN "success" ELSE "error500"

\* The flag after the handler's try statement: "finally" resets it after a
\* return and after an exception alike.
FlagAfterNoFinally(p) == p # "ret_ok"
FlagAfter(p) == FALSE

\* trigger_scrape after scrape_and_update returned or raised.
TriggerScrapeEnd(r) ==
    /\ pc[r] \in {"ret_ok", "ret_exc"}
    /\ CanRun(r)
    /\ last_scrape' = IF pc[r] = "ret_ok" THEN r ELSE last_scrape
    /\ response' = [response EXCEPT ![r] = Answer(pc[r])]
    /\ is_scraping' = FlagAfter(pc[r])
    /\ pc' = [pc EXCEPT ![r] = "answered"]
    /\ loop' = Yield(r, "answered")
    /\ UNCHANGED <<arrivedDuring, periodicLast>>

\* initial_scrape after its five-second sleep: sets the flag, enters the run.
InitialScrapeBegin ==
    /\ pc[InitialScrape] = "sleep5"
    /\ CanRun(InitialScrape)
    /\ is_scraping' = TRUE
    /\ pc' = [pc EXCEPT ![InitialScrape] = "fetch"]
    /\ loop' = Yield(InitialScrape, "fetch")
    /\ UNCHANGED <<last_scrape, response, arrivedDuring, periodicLast>>

InitialScrapeEnd ==
    /\ pc[InitialScrape] \in {"ret_ok", "ret_exc"}
    /\ CanRun(InitialScrape)
    /\ last_scrape' = IF pc[InitialScrape] = "ret_ok" THEN InitialScrape ELSE last_scrape
    /\ is_scraping' = FlagAfter(pc[InitialScrape])
    /\ pc' = [pc EXCEPT ![InitialScrape] = "done"]
    /\ loop' = Yield(InitialScrape, "done")
    /\ UNCHANGED <<response, arrivedDuring, periodicLast>>

\* run_periodic_scraping: first iteration, or wake-up after the 12 h sleep.
PeriodicBegin ==
    /\ pc[Periodic] \in {"created", "sleep12h"}
    /\ CanRun(Periodic)
    /\ pc' = [pc EXCEPT ![Periodic] = "fetch"]
    /\ loop' = Yield(Periodic, "fetch")
    /\ UNCHANGED <<is_scraping, last_scrape, response, arrivedDuring, periodicLast>>

\* Where run_periodic_scraping goes when its run has ended: "except
\* Exception" logs a failure, and the loop goes on to the 12 h sleep.
PeriodicAfterUncaught(p) == IF p = "ret_exc" THEN "done" ELSE "sleep12h"
PeriodicAfter(p) == "sleep12h"

\* run_periodic_scraping: the run ended (an exception is logged), sleep 12 h.
PeriodicEnd ==
    /\ pc[Periodic] \in {"ret_ok", "ret_exc"}
    /\ CanRun(Periodic)
    /\ pc' = [pc EXCEPT ![Periodic] = PeriodicAfter(pc[Periodic])]
    /\ loop' = Yield(Periodic, PeriodicAfter(pc[Periodic]))
    /\ periodicLast' = IF pc[Periodic] = "ret_ok" THEN "ok" ELSE "exc"
    /\ UNCHANGED <<is_scraping, last_scrape, response, arrivedDuring>>

\* One stage of scrape_and_update in task t: fetch+parse+filter, the record
\* loop with its commits, the pruning pass.  Each stage either completes or
\* raises out of scrape_and_update.
RunNext(p) == IF p = "fetch" THEN "records" ELSE IF p = "records" THEN "prune" ELSE "ret_ok"

ScrapeStage(t) ==
    /\ Running(t)
    /\ CanRun(t)
    /\ \E raised \in BOOLEAN :
          LET p == IF raised THEN "ret_exc" ELSE RunNext(pc[t])
          IN /\ pc' = [pc EXCEPT ![t] = p]
             /\ loop' = Yield(t, p)
    /\ UNCHANGED <<is_scraping, last_scrape, response, arrivedDuring, periodicLast>>

NextServer ==
    \/ \E r \in Requests : RequestArrives(r)
    \/ \E r \in Requests : TriggerScrapeBegin(r)
    \/ \E r \in Requests : TriggerScrapeEnd(r)
    \/ InitialScrapeBegin
    \/ InitialScrapeEnd
    \/ PeriodicBegin
    \/ PeriodicEnd
    \/ \E t \in Tasks : ScrapeStage(t)

-----------------------------------------------------------------------------
\* C1: at every moment at most one task is inside scrape_and_update.
C1_SingleRun == Cardinality({t \in Tasks : Running(t)}) <= 1

\* C1 witness: a manually triggered run is in progress while a second manual
\* trigger has arrived, the initial scrape is still due and the periodic task
\* has already run once.
C1_Witness ==
    /\ \E r \in Requests : pc[r] = "records"
    /\ \E r \in Requests : pc[r] = "arrived" /\ arrivedDuring[r]
    /\ pc[Periodic] = "sleep12h"
    /\ pc[InitialScrape] = "sleep5"

\* C2: a request that arrived while a run was in progress is answered
\* 'already_running' and never starts a run of its own.
C2_RejectedNotQueued ==
    \A r \in Requests :
        arrivedDuring[r] =>
            /\ pc[r] \in {"arrived", "answered"}
            /\ pc[r] = "answered" => response[r] = "already_running"

\* C18: a run of the periodic task starts only at the start of the task or
\* when the 12 h sleep that followed the end of the previous run is over,
\* the sleep starts only when a run has ended, by return or by exception,
\* and a next run always eventually starts.
C18_PeriodicRuns ==
    /\ [][/\ (pc'[Periodic] = "fetch" /\ pc[Periodic] # "fetch") =>
                pc[Periodic] \in {"created", "sleep12h"}
          /\ (pc'[Periodic] = "sleep12h" /\ pc[Periodic] # "sleep12h") =>
                pc[Periodic] \in {"ret_ok", "ret_exc"}]_vars
    /\ []<>(pc[Periodic] = "fetch")
\* C18 witness: a run of the periodic task is under way after a run of the
\* task that failed.
C18_Witness == pc[Periodic] = "fetch" /\ periodicLast = "exc"

\* C20: when the run started by a POST /api/scrape has raised, the request
\* is answered with HTTP 500, not with 'success'.
C20_FailureAnswered500 ==
    [][\A r \in Requests :
          (pc[r] = "ret_exc" /\ pc'[r] # "ret_exc") =>
              /\ pc'[r] = "answered"
              /\ response'[r] = "error500"]_vars
C20_Witness ==
    \E r \in Requests : pc[r] = "answered" /\ response[r] = "error500"

\* C28: scraping_status['is_scraping'] is true only while a run started by
\* POST /api/scrape or by the initial scrape is in progress or is being
\* wound up by its handler; once such a run has ended, by return or by
\* exception, the flag is false.
C28_FlagFollowsRun ==
    is_scraping =>
        \E t \in Requests \cup {InitialScrape} :
            pc[t] \in RunPositions \cup {"ret_ok", "ret_exc"}
\* C28 witness: a manually triggered run has raised and the initial scrape
\* has ended, and the flag is false.
C28_Witness ==
    /\ ~is_scraping
    /\ \E r \in Requests : pc[r] = "answered" /\ response[r] = "error500"
    /\ pc[InitialScrape] = "done"
    /\ loop = Idle


-----------------------------------------------------------------------------
(***************************************************************************)
(* Part 2.  Strings, and the two geocode clients.                          *)
(*                                                                         *)
(* Strings that the code inspects (venue names, cities, provider types)    *)
(* are sequences of one-character strings, so that substring tests, case   *)
(* folding and key construction are computed as the code computes them.    *)
(***************************************************************************)

\* Python: sub in s
StrContains(sub, s) ==
    \E i \in 1..(Len(s) - Len(sub) + 1) : SubSeq(s, i, i + Len(sub) - 1) = sub

UpperChar(ch) ==
    CASE ch = "a" -> "A" [] ch = "b" -> "B" [] ch = "c" -> "C" [] ch = "d" -> "D"
      [] ch = "l" -> "L" [] ch = "r" -> "R" [] ch = "t" -> "T" [] ch = "u" -> "U"
      [] ch = "x" -> "X" [] ch = "y" -> "Y"
      [] OTHER -> ch

LowerChar(ch) ==
    CASE ch = "A" -> "a" [] ch = "B" -> "b" [] ch = "C" -> "c" [] ch = "D" -> "d"
      [] ch = "L" -> "l" [] ch = "R" -> "r" [] ch = "T" -> "t" [] ch = "U" -> "u"
      [] ch = "X" -> "x" [] ch = "Y" -> "y"
      [] OTHER -> ch

\* Python: s.upper(), s.lower()
Upper(s) == [i \in 1..Len(s) |-> UpperChar(s[i])]
Lower(s) == [i \in 1..Len(s) |-> LowerChar(s[i])]

S_TBA == <<"T", "B", "A">>
S_TBD == <<"T", "B", "D">>
S_club == <<"c", "l", "u", "b">>
S_SF == <<"S", "F">>

\* Venue names of the model: an ordinary name, and names that contain
\* TBA / TBD in upper, lower and mixed case.
S_X == <<"X">>
S_tba == <<"X", " ", "t", "b", "a">>
S_Tbd == <<"T", "b", "d">>
VenueNames == {S_X, S_TBA, S_tba, S_TBD, S_Tbd}
\* the names the VenueGeocoder script is called with
LocationNames == {S_X, S_TBA, S_tba}
Cities == {S_SF}

\* f"{venue_name}|{city}"
Key(venue_name, city) == venue_name \o <<"|">> \o city

\* The name matches the to-be-announced pattern in any letter case
\* (re.search(r'TBA|TBD', venue_name, re.I)).
IsTbaName(venue_name) ==
    StrContains(S_TBA, Upper(venue_name)) \/ StrContains(S_TBD, Upper(venue_name))

\* None
NoResult == [none |-> TRUE]
EmptyMap == [k \in {} |-> NoResult]
Put(m, k, v) == (k :> v) @@ m

\* What the provider can answer to one request: a network / HTTP / parse
\* error, an empty list, or a list whose first element is a location.
S_dn == <<"d", "n">>
ProviderTypes == {<<"n", "i", "g", "h", "t">> \o S_club, <<"b", "a", "r">>}
Latitudes == {0, 37}
NetOutcomes ==
    {[kind |-> "error"], [kind |-> "empty"]} \cup
    {[kind |-> "result", lat |-> la, lon |-> 0 - 122, display_name |-> S_dn, type |-> ty] :
        la \in Latitudes, ty \in ProviderTypes}

S_approx == <<" ", "(", "a", "p", "p", "r", "o", "x", ")">>
S_California == <<",", " ", "C", "a", "l", "i", "f", "o", "r", "n", "i", "a">>
S_CA == <<",", " ", "C", "A">>

\* EventScraper.geocode_venue.  gc is self.geocode_cache, o1 and o2 are the
\* provider's answers to the primary and to the city-only request.  The
\* result holds the return value, the cache afterwards and the requests sent.
ScraperCacheHit(gc, venue_name, city) == Key(venue_name, city) \in DOMAIN gc

\* the 'TBA' / 'TBD' test of geocode_venue
SkipTba(venue_name) == StrContains(S_TBA, venue_name) \/ StrContains(S_TBD, venue_name)

geocode_venue(gc, venue_name, city, o1, o2) ==
    LET cache_key == Key(venue_name, city)
        q1 == venue_name \o <<",", " ">> \o city \o S_California
        q2 == city \o S_California
    IN  IF ScraperCacheHit(gc, venue_name, city)
        THEN [ret |-> gc[cache_key], cache |-> gc, reqs |-> <<>>]
        ELSE IF SkipTba(venue_name)
        THEN [ret |-> NoResult, cache |-> gc, reqs |-> <<>>]
        ELSE IF o1.kind = "error"
        THEN [ret |-> NoResult, cache |-> gc, reqs |-> <<q1>>]
        ELSE IF o1.kind = "result"
        THEN LET coords == [lat |-> o1.lat, lon |-> o1.lon,
                            display_name |-> o1.display_name,
                            approximate |-> ~StrContains(S_club, Lower(o1.type))]
             IN [ret |-> coords, cache |-> Put(gc, cache_key, coords), reqs |-> <<q1>>]
        ELSE IF o2.kind = "result"
        THEN LET coords == [lat |-> o2.lat, lon |-> o2.lon,
                            display_name |-> venue_name \o S_approx,
                            approximate |-> TRUE]
             IN [ret |-> coords, cache |-> Put(gc, cache_key, coords), reqs |-> <<q1, q2>>]
        ELSE [ret |-> NoResult, cache |-> gc, reqs |-> <<q1, q2>>]

\* VenueGeocoder.geocode_location.
LocationCacheHitStrict(c, venue, city) ==
    Key(venue, city) \in DOMAIN c /\ c[Key(venue, city)] # NoResult
LocationCacheHit(c, venue, city) == Key(venue, city) \in DOMAIN c

geocode_location(c, venue, city, o1, o2) ==
    LET cache_key == Key(venue, city)
        query == venue \o <<",", " ">> \o city \o S_CA
        city_query == city \o S_CA
    IN  IF LocationCacheHit(c, venue, city)
        THEN [ret |-> c[cache_key], cache |-> c, reqs |-> <<>>]
        ELSE IF o1.kind = "result"
        THEN LET result == [lat |-> o1.lat, lon |-> o1.lon,
                            display_name |-> o1.display_name,
                            query |-> query, approximate |-> FALSE]
             IN [ret |-> result, cache |-> Put(c, cache_key, result), reqs |-> <<query>>]
        ELSE IF o2.kind = "result"
        THEN LET result == [lat |-> o2.lat, lon |-> o2.lon,
                            display_name |-> venue \o S_approx,
                            query |-> city_query, approximate |-> TRUE]
             IN [ret |-> result, cache |-> Put(c, cache_key, result),
                 reqs |-> <<query, city_query>>]
        ELSE [ret |-> NoResult, cache |-> Put(c, cache_key, NoResult),
              reqs |-> <<query, city_query>>]

NoCall == [fn |-> "none"]

\* VenueGeocoder.load_cache: the cache file is absent, or holds entries of
\* an earlier process (results and null entries).
LoadableCaches ==
    {EmptyMap,
     Put(EmptyMap, Key(S_X, S_SF), NoResult),
     Put(EmptyMap, Key(S_X, S_SF),
         [lat |-> 37, lon |-> 0 - 122, display_name |-> S_dn,
          query |-> S_X \o <<",", " ">> \o S_SF \o S_CA, approximate |-> FALSE])}

InitGeoIdle ==
    /\ client = "none"
    /\ geocode_cache = EmptyMap
    /\ cache = EmptyMap
    /\ lastCall = NoCall

InitGeo ==
    /\ client \in {"EventScraper", "VenueGeocoder"}
    /\ geocode_cache = EmptyMap
    /\ cache \in (IF client = "VenueGeocoder" THEN LoadableCaches ELSE {EmptyMap})
    /\ lastCall = NoCall

\* One call of EventScraper.geocode_venue.
GeocodeVenueCall(venue_name, city) ==
    /\ client = "EventScraper"
    /\ \E o1, o2 \in NetOutcomes :
          LET r == geocode_venue(geocode_cache, venue_name, city, o1, o2)
          IN /\ geocode_cache' = r.cache
             /\ lastCall' = [fn |-> "geocode_venue", venue |-> venue_name, city |-> city,
                             hit |-> Key(venue_name, city) \in DOMAIN geocode_cache,
                             cached |-> IF Key(venue_name, city) \in DOMAIN geocode_cache
                                        THEN geocode_cache[Key(venue_name, city)]
                                        ELSE NoResult,
                             reqs |-> r.reqs, ret |-> r.ret,
                             primary |-> IF r.reqs = <<>> THEN "none" ELSE o1.kind]
    /\ UNCHANGED <<client, cache>>

\* EventScraper(): scrape_and_update builds a new scraper for every run.
NewEventScraper ==
    /\ client = "EventScraper"
    /\ geocode_cache' = EmptyMap
    /\ lastCall' = NoCall
    /\ UNCHANGED <<client, cache>>

\* One call of VenueGeocoder.geocode_location.
GeocodeLocationCall(venue, city) ==
    /\ client = "VenueGeocoder"
    /\ \E o1, o2 \in NetOutcomes :
          LET r == geocode_location(cache, venue, city, o1, o2)
          IN /\ cache' = r.cache
             /\ lastCall' = [fn |-> "geocode_location", venue |-> venue, city |-> city,
                             hit |-> Key(venue, city) \in DOMAIN cache,
                             cached |-> IF Key(venue, city) \in DOMAIN cache
                                        THEN cache[Key(venue, city)]
                                        ELSE NoResult,
                             reqs |-> r.reqs, ret |-> r.ret,
                             primary |-> IF r.reqs = <<>> THEN "none" ELSE o1.kind]
    /\ UNCHANGED <<client, geocode_cache>>

NextGeo ==
    \/ \E v \in VenueNames, c \in Cities : GeocodeVenueCall(v, c)
    \/ NewEventScraper
    \/ \E v \in LocationNames, c \in Cities : GeocodeLocationCall(v, c)

CacheOf(fn) == IF fn = "geocode_venue" THEN geocode_cache ELSE cache

\* C8: a resolve whose key was already in the cache, also when cached as
\* NoResult, returns the cached value and sends no request.
C8_CacheHitNoRequest ==
    (lastCall.fn # "none" /\ lastCall.hit) =>
        /\ lastCall.reqs = <<>>
        /\ lastCall.ret = lastCall.cached

\* C8 witness: a resolve has hit a key cached as NoResult.
C8_Witness ==
    /\ lastCall.fn # "none"
    /\ lastCall.hit
    /\ lastCall.cached = NoResult
    /\ lastCall.ret = NoResult

\* C9: after a resolve that ended in total failure (requests were sent and
\* none gave a location) the key holds the NoResult sentinel in the cache
\* of the client, so that later resolves are answered from the cache.
C9_FailureCached ==
    (lastCall.fn # "none" /\ lastCall.reqs # <<>> /\ lastCall.ret = NoResult) =>
        LET k == Key(lastCall.venue, lastCall.city)
        IN k \in DOMAIN CacheOf(lastCall.fn) /\ CacheOf(lastCall.fn)[k] = NoResult

\* C10: no resolve of a venue name that contains TBA or TBD in any letter
\* case sends a request; it returns NoResult.
C10_TbaNeverRequested ==
    (lastCall.fn = "geocode_venue" /\ IsTbaName(lastCall.venue)) =>
        lastCall.reqs = <<>> /\ lastCall.ret = NoResult

\* C11: on a cache miss, a primary query that comes back empty or fails
\* with a network or parse error is followed by the city-only query.
C11_FallbackAfterEmptyOrError ==
    (lastCall.fn # "none" /\ lastCall.primary \in {"empty", "error"}) =>
        Len(lastCall.reqs) = 2

\* C12: a resolve whose primary query gave a result caches and returns
\* coordinates with approximate = FALSE; approximate = TRUE comes from the
\* city-only query alone.
C12_PrimaryIsExact ==
    (lastCall.fn # "none" /\ lastCall.primary = "result") =>
        LET k == Key(lastCall.venue, lastCall.city)
        IN /\ lastCall.ret # NoResult
           /\ lastCall.ret.approximate = FALSE
           /\ k \in DOMAIN CacheOf(lastCall.fn)
           /\ CacheOf(lastCall.fn)[k] = lastCall.ret

-----------------------------------------------------------------------------
(***************************************************************************)
(* Part 2b.  The clock: when the outbound requests of a geocode client are *)
(* issued.  Time is counted in ticks; a request is issued at the tick at   *)
(* which requests.get is called and blocks the thread while it lasts.      *)
(* Statements other than time.sleep and requests.get take no time.         *)
(***************************************************************************)

\* End of the modelled time span.
MaxTime == 9
TicksPerSecond == 2
\* rate_limit_seconds=1.0 of VenueGeocoder, and time.sleep(1) of geocode_venue
rate_limit_seconds == 1
ScraperSleep == 1
\* A number of seconds, in ticks of the clock.
Ticks(seconds) == seconds * TicksPerSecond
\* time.time() at process start: far from the epoch 0.
StartTime == Ticks(rate_limit_seconds) + 1
\* How long a request can last (timeout=10 bounds it; here up to a second
\* and a half), and by how much time.sleep can oversleep.
Durations == 0..3
Oversleep == 0..1
\* What a request gives back.
Answers == {"result", "empty", "error"}

\* VenueGeocoder.rate_limit: the time to sleep.
RateLimitNoWait(elapsed) == 0
RateLimitWait(elapsed) ==
    IF elapsed < Ticks(rate_limit_seconds)
    THEN Ticks(rate_limit_seconds) - elapsed ELSE 0

InitRateIdle ==
    /\ limiter = "none"
    /\ now = StartTime
    /\ last_request_time = 0
    /\ rpc = "idle"
    /\ sent = <<>>

InitRate ==
    /\ limiter \in {"EventScraper", "VenueGeocoder"}
    /\ now = StartTime
    /\ last_request_time = 0
    /\ rpc = "idle"
    /\ sent = <<>>

\* The history keeps the last two requests.
Record(q) ==
    IF sent = <<>> THEN <<[at |-> now, q |-> q]>>
    ELSE <<sent[Len(sent)], [at |-> now, q |-> q]>>

\* Other work of the process between two resolves.
Elapse ==
    /\ rpc = "idle"
    /\ now < MaxTime
    /\ now' = now + 1
    /\ UNCHANGED <<limiter, last_request_time, rpc, sent>>

\* geocode_venue on a cache miss: time.sleep(1) before the primary request.
ScraperSleepPrimary ==
    /\ limiter = "EventScraper"
    /\ rpc = "idle"
    /\ now < MaxTime
    /\ \E o \in Oversleep : now' = now + Ticks(ScraperSleep) + o
    /\ rpc' = "primary"
    /\ UNCHANGED <<limiter, last_request_time, sent>>

\* The primary request.  A result or an exception ends the resolve; an
\* empty list leads to the fallback.
ScraperPrimary ==
    /\ limiter = "EventScraper"
    /\ rpc = "primary"
    /\ \E d \in Durations, a \in Answers :
          /\ now' = now + d
          /\ rpc' = IF a = "empty" THEN "fallback_sleep" ELSE "idle"
    /\ sent' = Record("primary")
    /\ UNCHANGED <<limiter, last_request_time>>

\* time.sleep(1) before the city-only request.
ScraperSleepFallback ==
    /\ limiter = "EventScraper"
    /\ rpc = "fallback_sleep"
    /\ \E o \in Oversleep : now' = now + Ticks(ScraperSleep) + o
    /\ rpc' = "fallback"
    /\ UNCHANGED <<limiter, last_request_time, sent>>

ScraperFallback ==
    /\ limiter = "EventScraper"
    /\ rpc = "fallback"
    /\ \E d \in Durations : now' = now + d
    /\ rpc' = "idle"
    /\ sent' = Record("fallback")
    /\ UNCHANGED <<limiter, last_request_time>>

\* VenueGeocoder.rate_limit, called before the primary request (from
\* "idle") and before the city-only request (from "fallback_sleep").
RateLimit ==
    /\ limiter = "VenueGeocoder"
    /\ rpc \in {"idle", "fallback_sleep"}
    /\ now < MaxTime
    /\ LET elapsed == now - last_request_time
           wait == RateLimitWait(elapsed)
       IN \E o \in Oversleep :
             /\ now' = IF wait > 0 THEN now + wait + o ELSE now
             /\ last_request_time' = now'
    /\ rpc' = IF rpc = "idle" THEN "primary" ELSE "fallback"
    /\ UNCHANGED <<limiter, sent>>

\* The primary request of geocode_location: a result ends the resolve, an
\* empty list or an exception leads to the fallback.
LocationPrimary ==
    /\ limiter = "VenueGeocoder"
    /\ rpc = "primary"
    /\ \E d \in Durations, a \in Answers :
          /\ now' = now + d
          /\ rpc' = IF a = "result" THEN "idle" ELSE "fallback_sleep"
    /\ sent' = Record("primary")
    /\ UNCHANGED <<limiter, last_request_time>>

LocationFallback ==
    /\ limiter = "VenueGeocoder"
    /\ rpc = "fallback"
    /\ \E d \in Durations : now' = now + d
    /\ rpc' = "idle"
    /\ sent' = Record("fallback")
    /\ UNCHANGED <<limiter, last_request_time>>

NextRate ==
    \/ Elapse
    \/ ScraperSleepPrimary
    \/ ScraperPrimary
    \/ ScraperSleepFallback
    \/ ScraperFallback
    \/ RateLimit
    \/ LocationPrimary
    \/ LocationFallback

\* C13: between two consecutive outbound geocoding requests of a process at
\* least the minimum interval elapses, between resolves of different venues
\* and between a primary query and its fallback.
C13_MinimumInterval ==
    Len(sent) = 2 => sent[2].at - sent[1].at >= Ticks(rate_limit_seconds)
\* C13 witness: a fallback was issued exactly one interval after its
\* primary query, which had come back at once.
C13_Witness ==
    /\ Len(sent) = 2
    /\ sent[1].q = "primary"
    /\ sent[2].q = "fallback"
    /\ sent[2].at - sent[1].at = Ticks(rate_limit_seconds)

-----------------------------------------------------------------------------
(***************************************************************************)
(* Part 3.  The store (models.py), the SQLAlchemy session and              *)
(* DatabaseUpdater.                                                        *)
(*                                                                         *)
(* A table is a set of rows.  db holds the committed tables; tx holds the  *)
(* tables of the open transaction together with the objects the session    *)
(* has added but not yet flushed (rows with pending = TRUE, which queries  *)
(* do not see because the session is created with autoflush=False).        *)
(* Ids are given as SQLite gives them to an INTEGER PRIMARY KEY without    *)
(* AUTOINCREMENT: one more than the largest id in the table.               *)
(***************************************************************************)

\* Python None in a string-valued field; SQL NULL in a string column.
None == "None"
\* An absent date, an absent venue name: the empty sequence.
NoDate == <<>>
NoVenue == <<>>
\* A nullable number: <<>> is NULL, <<x>> is the number x.
NullNum == <<>>
Num(x) == <<x>>

\* Python truthiness of a Float attribute: None and 0.0 are both falsy.
Falsy(n) == n = NullNum \/ n = Num(0)

NoRow == [id |-> 0]

\* The tables, and what the session holds for the next flush of the
\* genres and promoters collections: the association rows appended since
\* the last flush, and those among them appended more than once.
EmptyTables ==
    [venues |-> {}, genres |-> {}, promoters |-> {}, events |-> {},
     event_genres |-> {}, event_promoters |-> {}, event_links |-> {},
     appended |-> {}, twice |-> {}]

SetMax(S) == IF S = {} THEN 0 ELSE CHOOSE x \in S : \A y \in S : y <= x
SetMin(S) == CHOOSE x \in S : \A y \in S : x <= y
NextId(rows) == SetMax({r.id : r \in rows}) + 1

\* Query.first(): the matching row with the smallest rowid, or NoRow.
First(rows) ==
    IF rows = {} THEN NoRow
    ELSE CHOOSE r \in rows : r.id = SetMin({q.id : q \in rows})

\* datetime.strptime(date_str, '%Y-%m-%d') accepts the string.
IsLeap(y) == (y % 4 = 0 /\ y % 100 # 0) \/ y % 400 = 0
DaysInMonth(y, m) ==
    IF m = 2 THEN (IF IsLeap(y) THEN 29 ELSE 28)
    ELSE IF m \in {4, 6, 9, 11} THEN 30 ELSE 31
StrptimeOk(d) ==
    /\ d[1] >= 1 /\ d[1] <= 9999
    /\ d[2] >= 1 /\ d[2] <= 12
    /\ d[3] >= 1 /\ d[3] <= DaysInMonth(d[1], d[2])

\* set(xs) of a list
SeqToSet(xs) == {xs[j] : j \in 1..Len(xs)}

\* The orders in which Python may iterate over a set.
Orders(S) == {q \in [1..Cardinality(S) -> S] : \A a, b \in 1..Cardinality(S) : a # b => q[a] # q[b]}

\* The object a cache entry stands for.  A live entry names a row the
\* session holds; a stale entry is an object that a rollback expunged from
\* the session (its attributes are kept as they were).
LiveEntry(id) == [live |-> TRUE, id |-> id]
StaleEntry(obj) == [live |-> FALSE, obj |-> obj]

\* session.rollback(): the tables revert to the committed ones.  A cached
\* object whose row was inserted or added in the transaction is expunged and
\* stays in the cache as a detached object; its id attribute is set only if
\* it had been flushed.
RollbackCache(c, txrows, dbrows) ==
    [k \in DOMAIN c |->
        IF ~c[k].live THEN c[k]
        ELSE LET mine == {r \in txrows : r.id = c[k].id /\ r.key = k}
                 row == CHOOSE r \in mine : TRUE
             IN IF \E r \in dbrows : r.id = c[k].id /\ r.key = k
                THEN c[k]
                ELSE StaleEntry([row EXCEPT !.id = IF row.pk THEN row.id ELSE 0,
                                            !.pending = TRUE])]

\* session.flush(): the INSERTs violate no primary key and no unique
\* constraint (genres.name and promoters.name are unique; an association
\* row appended twice is inserted twice, against the primary key
\* (event_id, genre_id) or (event_id, promoter_id)).
UniqueIds(rows) == Cardinality({r.id : r \in rows}) = Cardinality(rows)
UniqueKeys(rows) == Cardinality({r.key : r \in rows}) = Cardinality(rows)
FlushOk(t) ==
    /\ UniqueIds(t.venues)
    /\ UniqueIds(t.genres) /\ UniqueKeys(t.genres)
    /\ UniqueIds(t.promoters) /\ UniqueKeys(t.promoters)
    /\ t.twice = {}

Flushed(rows) == {[r EXCEPT !.pending = FALSE, !.pk = TRUE] : r \in rows}
Flush(t) ==
    [t EXCEPT !.venues = Flushed(t.venues),
              !.genres = Flushed(t.genres),
              !.promoters = Flushed(t.promoters),
              !.appended = {},
              !.twice = {}]

\* 'San Francisco', the default of event_data.get('city', ...)
DefaultCity == S_SF
CityOf(event_data) == IF event_data.city = NoVenue THEN DefaultCity ELSE event_data.city

WithCoordinates(venue, coordinates) ==
    [venue EXCEPT !.latitude = Num(coordinates.lat),
                  !.longitude = Num(coordinates.lon),
                  !.display_name = coordinates.display_name,
                  !.is_approximate = coordinates.approximate]

\* A detached object comes back into the session (save-update cascade from
\* the event it is attached to): it is pending again, under its old id if
\* that attribute is set.
Readd(rows, obj) ==
    [obj EXCEPT !.id = IF obj.pk THEN obj.id ELSE NextId(rows), !.pending = TRUE]

\* "if cache_key in self.venue_cache", and the same test of the genre and
\* the promoter cache.
CachedNever(c, cache_key) == FALSE
Cached(c, cache_key) == cache_key \in DOMAIN c

\* DatabaseUpdater.get_or_create_venue.  Gives the tables, the venue cache
\* and the id of the venue object returned.
get_or_create_venue(t, vc, venue_name, city, coordinates) ==
    LET cache_key == Key(venue_name, city)
    IN  IF Cached(vc, cache_key)
        THEN IF vc[cache_key].live
             THEN [t |-> t, cache |-> vc, id |-> vc[cache_key].id]
             ELSE LET venue == Readd(t.venues, vc[cache_key].obj)
                  IN [t |-> [t EXCEPT !.venues = @ \cup {venue}],
                      cache |-> Put(vc, cache_key, LiveEntry(venue.id)),
                      id |-> venue.id]
        ELSE LET found == First({r \in t.venues :
                                    ~r.pending /\ r.name = venue_name /\ r.city = city})
             IN IF found = NoRow
                THEN LET fresh == [id |-> NextId(t.venues), key |-> cache_key,
                                   name |-> venue_name, city |-> city,
                                   latitude |-> NullNum, longitude |-> NullNum,
                                   display_name |-> <<>>, is_approximate |-> FALSE,
                                   is_tba |-> IsTbaName(venue_name),
                                   pending |-> TRUE, pk |-> FALSE]
                         venue == IF coordinates # NoResult
                                  THEN WithCoordinates(fresh, coordinates) ELSE fresh
                     IN [t |-> [t EXCEPT !.venues = @ \cup {venue}],
                         cache |-> Put(vc, cache_key, LiveEntry(venue.id)),
                         id |-> venue.id]
                ELSE IF coordinates # NoResult /\ Falsy(found.latitude)
                THEN [t |-> [t EXCEPT !.venues =
                                (@ \ {found}) \cup {WithCoordinates(found, coordinates)}],
                      cache |-> Put(vc, cache_key, LiveEntry(found.id)),
                      id |-> found.id]
                ELSE [t |-> t, cache |-> Put(vc, cache_key, LiveEntry(found.id)),
                      id |-> found.id]

\* DatabaseUpdater.get_or_create_genre and get_or_create_promoter, on the
\* rows of the genres (promoters) table and the genre (promoter) cache.
get_or_create_named(rows, c, name) ==
    IF Cached(c, name)
    THEN IF c[name].live
         THEN [rows |-> rows, cache |-> c, id |-> c[name].id]
         ELSE LET obj == Readd(rows, c[name].obj)
              IN [rows |-> rows \cup {obj}, cache |-> Put(c, name, LiveEntry(obj.id)),
                  id |-> obj.id]
    ELSE LET found == First({r \in rows : ~r.pending /\ r.key = name})
         IN IF found = NoRow
            THEN LET obj == [id |-> NextId(rows), key |-> name,
                             pending |-> TRUE, pk |-> FALSE]
                 IN [rows |-> rows \cup {obj}, cache |-> Put(c, name, LiveEntry(obj.id)),
                     id |-> obj.id]
            ELSE [rows |-> rows, cache |-> Put(c, name, LiveEntry(found.id)),
                  id |-> found.id]

\* The loops "for name in ...: if name: obj = get_or_create(name); append".
\* An appended object is named by its id and its name; an association row
\* is <<event id, <<id, name>>>>.
RECURSIVE GetOrCreateAll(_, _, _)
GetOrCreateAll(rows, c, names) ==
    IF names = <<>>
    THEN [rows |-> rows, cache |-> c, ids |-> <<>>]
    ELSE IF Head(names) = ""
    THEN GetOrCreateAll(rows, c, Tail(names))
    ELSE LET r == get_or_create_named(rows, c, Head(names))
             rest == GetOrCreateAll(r.rows, r.cache, Tail(names))
         IN [rows |-> rest.rows, cache |-> rest.cache,
             ids |-> <<<<r.id, Head(names)>>>> \o rest.ids]

\* The EventLink rows of a new event.
LinkRows(t, eid, extraLinks) ==
    {[id |-> NextId(t.event_links) + j - 1, event_id |-> eid,
      text |-> extraLinks[j].text, href |-> extraLinks[j].href] :
        j \in {n \in 1..Len(extraLinks) : extraLinks[n].href # ""}}

\* The lookup of the existing event: Event.title == event_data.get('title')
\* (IS NULL when the record has no title) and Event.date == event_date.
ExistingEvent(t, event_data) ==
    First({e \in t.events : e.title = event_data.title /\ e.date = event_data.dateISO})

UpdatedRowWithPayload(existing, venue_id, event_data) ==
    [existing EXCEPT !.url = event_data.url,
                     !.time_range = event_data.timeRange,
                     !.price = event_data.price,
                     !.age_restriction = event_data.age,
                     !.venue_id = venue_id,
                     !.original_json = event_data]
\* The attributes assigned on the update path.
UpdatedRow(existing, venue_id, event_data) ==
    [existing EXCEPT !.url = event_data.url,
                     !.time_range = event_data.timeRange,
                     !.price = event_data.price,
                     !.age_restriction = event_data.age,
                     !.venue_id = venue_id]

\* The elements a list holds more than once.
Twice(xs) ==
    {xs[j] : j \in {n \in 1..Len(xs) : \E m \in 1..Len(xs) : m # n /\ xs[m] = xs[n]}}
\* The collection of an event as the last flush left it, the yardstick for
\* what the next flush inserts.
Original(t, tbl, rows, eid) ==
    {x[2] : x \in {y \in rows : y[1] = eid /\ <<tbl, eid, y[2]>> \notin t.appended}}
\* The appends of the objects genres and promoters to the collections of
\* the event eid, as the session remembers them for the flush.
Attach(t, eid, genres, promoters) ==
    LET og == Original(t, "event_genres", t.event_genres, eid)
        op == Original(t, "event_promoters", t.event_promoters, eid)
    IN [appended |->
            {a \in t.appended : a[2] # eid}
            \cup {<<"event_genres", eid, g>> : g \in SeqToSet(genres) \ og}
            \cup {<<"event_promoters", eid, q>> : q \in SeqToSet(promoters) \ op},
        twice |->
            {a \in t.twice : a[2] # eid}
            \cup {<<"event_genres", eid, g>> : g \in Twice(genres) \ og}
            \cup {<<"event_promoters", eid, q>> : q \in Twice(promoters) \ op}]

UpdateKeepingGenres(t, existing, venue_id, genres, promoters, event_data) ==
    [t EXCEPT !.events = (@ \ {existing}) \cup {UpdatedRow(existing, venue_id, event_data)},
              !.event_genres = @ \cup {<<existing.id, g>> : g \in SeqToSet(genres)},
              !.event_promoters = @ \cup {<<existing.id, q>> : q \in SeqToSet(promoters)},
              !.appended = Attach(t, existing.id, genres, promoters).appended,
              !.twice = Attach(t, existing.id, genres, promoters).twice]
\* The update path: attributes, then genres.clear() and promoters.clear()
\* followed by the appends.  genres and promoters are the lists of the
\* objects appended.
UpdateExisting(t, existing, venue_id, genres, promoters, event_data) ==
    [t EXCEPT !.events = (@ \ {existing}) \cup {UpdatedRow(existing, venue_id, event_data)},
              !.event_genres = {x \in @ : x[1] # existing.id} \cup
                                  {<<existing.id, g>> : g \in SeqToSet(genres)},
              !.event_promoters = {x \in @ : x[1] # existing.id} \cup
                                  {<<existing.id, q>> : q \in SeqToSet(promoters)},
              !.appended = Attach(t, existing.id, genres, promoters).appended,
              !.twice = Attach(t, existing.id, genres, promoters).twice]

CreateEvent(t, venue_id, genres, promoters, event_data) ==
    LET eid == NextId(t.events)
        event == [id |-> eid,
                  title |-> IF event_data.title = None THEN "Untitled Event"
                            ELSE event_data.title,
                  url |-> event_data.url,
                  hidden |-> event_data.hidden,
                  date |-> event_data.dateISO,
                  day_label |-> event_data.dayLabel,
                  time_range |-> event_data.timeRange,
                  venue_id |-> venue_id,
                  price |-> event_data.price,
                  age_restriction |-> event_data.age,
                  original_json |-> event_data,
                  source |-> "19hz"]
    IN [t EXCEPT !.events = @ \cup {event},
                 !.event_genres = @ \cup {<<eid, g>> : g \in SeqToSet(genres)},
                 !.event_promoters = @ \cup {<<eid, q>> : q \in SeqToSet(promoters)},
                 !.event_links = @ \cup LinkRows(t, eid, event_data.extraLinks),
                 !.appended = Attach(t, eid, genres, promoters).appended,
                 !.twice = Attach(t, eid, genres, promoters).twice]

\* DatabaseUpdater.update_or_create_event.  order is the order in which
\* set(event_data['genres']) is iterated.  genres and promoters are the
\* names of the objects in the event's collections when the call returns.
update_or_create_event(t, vc, gc, prc, event_data, coordinates, order) ==
    IF event_data.dateISO # NoDate /\ ~StrptimeOk(event_data.dateISO)
    THEN [raised |-> TRUE, is_new |-> FALSE, eid |-> 0, t |-> t,
          venue_cache |-> vc, genre_cache |-> gc, promoter_cache |-> prc,
          genres |-> <<>>, promoters |-> <<>>]
    ELSE
    LET existing == ExistingEvent(t, event_data)
        v == IF event_data.venue # NoVenue
             THEN get_or_create_venue(t, vc, event_data.venue, CityOf(event_data), coordinates)
             ELSE [t |-> t, cache |-> vc, id |-> 0]
        g == GetOrCreateAll(v.t.genres, gc, order)
        q == GetOrCreateAll(v.t.promoters, prc, event_data.promoters)
        t2 == [v.t EXCEPT !.genres = g.rows, !.promoters = q.rows]
    IN  IF existing # NoRow
        THEN [raised |-> FALSE, is_new |-> FALSE, eid |-> existing.id,
              t |-> UpdateExisting(t2, existing, v.id, g.ids, q.ids, event_data),
              venue_cache |-> v.cache, genre_cache |-> g.cache, promoter_cache |-> q.cache,
              genres |-> [j \in 1..Len(g.ids) |-> g.ids[j][2]],
              promoters |-> [j \in 1..Len(q.ids) |-> q.ids[j][2]]]
        ELSE LET t3 == CreateEvent(t2, v.id, g.ids, q.ids, event_data)
             IN [raised |-> ~FlushOk(t3), is_new |-> TRUE, eid |-> NextId(t2.events),
                 t |-> IF FlushOk(t3) THEN Flush(t3) ELSE t3,
                 venue_cache |-> v.cache, genre_cache |-> g.cache,
                 promoter_cache |-> q.cache,
                 genres |-> [j \in 1..Len(g.ids) |-> g.ids[j][2]],
                 promoters |-> [j \in 1..Len(q.ids) |-> q.ids[j][2]]]

-----------------------------------------------------------------------------
(***************************************************************************)
(* Part 4.  The record loop of scrape_and_update, driven with records of   *)
(* the shape EventScraper.parse_single_event emits.                        *)
(***************************************************************************)

\* Number of runs of the record loop, and records per run.
MaxRuns == 2
MaxRecords == 2
\* "if i % 20 == 0: session.commit()"
CommitEvery == 20

D_Sep1 == <<2025, 9, 1>>
D_Feb30 == <<2025, 2, 30>>

R_A1 ==
    [title |-> "A", url |-> "u1", dateISO |-> D_Sep1, dayLabel |-> "Mon: Sep 1",
     timeRange |-> "10pm-2am", venue |-> S_X, city |-> S_SF,
     genres |-> <<"Techno", "House">>, price |-> "$10", age |-> "21+",
     promoters |-> <<"P">>, extraLinks |-> <<[text |-> "tickets", href |-> "h1"]>>,
     hidden |-> FALSE]
\* the same event sighted again with other contents
R_A2 ==
    [title |-> "A", url |-> "u2", dateISO |-> D_Sep1, dayLabel |-> "Mon: Sep 1",
     timeRange |-> None, venue |-> S_X, city |-> S_SF,
     genres |-> <<"Dub", "Dub">>, price |-> "free", age |-> None,
     promoters |-> <<>>, extraLinks |-> <<>>, hidden |-> FALSE]
\* a row without a title (the record has no 'title' key) and without a venue
R_NoTitle ==
    [title |-> None, url |-> None, dateISO |-> D_Sep1, dayLabel |-> "Mon: Sep 1",
     timeRange |-> None, venue |-> NoVenue, city |-> NoVenue,
     genres |-> <<>>, price |-> None, age |-> None,
     promoters |-> <<>>, extraLinks |-> <<>>, hidden |-> FALSE]
\* a row whose date cell did not parse
R_NoDate ==
    [title |-> "B", url |-> "u3", dateISO |-> NoDate, dayLabel |-> None,
     timeRange |-> None, venue |-> S_tba, city |-> NoVenue,
     genres |-> <<"Techno">>, price |-> None, age |-> None,
     promoters |-> <<"P">>, extraLinks |-> <<>>, hidden |-> FALSE]
\* a row "Feb 30": dateISO is not a calendar date
R_BadDate ==
    [title |-> "C", url |-> "u4", dateISO |-> D_Feb30, dayLabel |-> "Sun: Feb 30",
     timeRange |-> None, venue |-> NoVenue, city |-> NoVenue,
     genres |-> <<"Dub">>, price |-> None, age |-> None,
     promoters |-> <<>>, extraLinks |-> <<>>, hidden |-> FALSE]

\* the event sighted once more, with a promoter listed twice
R_A3 ==
    [R_A2 EXCEPT !.url = "u5", !.promoters = <<"P", "P">>]

Records == {R_A1, R_A2, R_NoTitle, R_NoDate, R_BadDate}

\* The coordinates a record can be upserted with.
CoordA == [lat |-> 0, lon |-> 0 - 122, display_name |-> S_dn, approximate |-> FALSE]
CoordB == [lat |-> 37, lon |-> 0 - 122, display_name |-> S_dn \o S_approx, approximate |-> TRUE]
Coordinates == {NoResult, CoordA, CoordB}

Items ==
    {[rec |-> r, coordinates |-> c] :
        r \in Records, c \in Coordinates} \
    {[rec |-> r, coordinates |-> c] :
        r \in {q \in Records : q.venue = NoVenue}, c \in Coordinates \ {NoResult}}

Batches == UNION {[1..n -> Items] : n \in 1..MaxRecords}

NoUpsert == [op |-> "none"]

Counts(t) ==
    [events |-> Cardinality(t.events), venues |-> Cardinality(t.venues),
     genres |-> Cardinality(t.genres), promoters |-> Cardinality(t.promoters)]

InitStoreIdle ==
    /\ db = EmptyTables
    /\ tx = EmptyTables
    /\ venue_cache = EmptyMap
    /\ genre_cache = EmptyMap
    /\ promoter_cache = EmptyMap
    /\ phase = "idle"
    /\ run = 0
    /\ idx = 0
    /\ batch = <<>>
    /\ counts = <<>>
    /\ lastUp = NoUpsert

InitReplay ==
    /\ db = EmptyTables
    /\ tx = EmptyTables
    /\ venue_cache = EmptyMap
    /\ genre_cache = EmptyMap
    /\ promoter_cache = EmptyMap
    /\ phase = "idle"
    /\ run = 0
    /\ idx = 0
    /\ batch \in Batches
    /\ counts = <<>>
    /\ lastUp = NoUpsert

\* The venue object the session would hand out for (venue_name, city).
VenueObject(t, vc, venue_name, city) ==
    LET k == Key(venue_name, city)
    IN  IF k \in DOMAIN vc
        THEN IF vc[k].live
             THEN First({r \in t.venues : r.id = vc[k].id /\ r.key = k})
             ELSE vc[k].obj
        ELSE First({r \in t.venues : ~r.pending /\ r.name = venue_name /\ r.city = city})

GenreNames(t, eid) ==
    {x[2][2] : x \in {y \in t.event_genres : y[1] = eid}}
PromoterNames(t, eid) ==
    {x[2][2] : x \in {y \in t.event_promoters : y[1] = eid}}
Links(t, eid) ==
    {[text |-> l.text, href |-> l.href] : l \in {x \in t.event_links : x.event_id = eid}}

\* scrape_and_update: the session and the DatabaseUpdater of a run.
RunStart ==
    /\ phase = "idle"
    /\ run < MaxRuns
    /\ phase' = "loop"
    /\ run' = run + 1
    /\ idx' = 0
    /\ tx' = db
    /\ venue_cache' = EmptyMap
    /\ genre_cache' = EmptyMap
    /\ promoter_cache' = EmptyMap
    /\ lastUp' = NoUpsert
    /\ UNCHANGED <<db, batch, counts>>

\* One iteration of the record loop: update_or_create_event, the periodic
\* commit, and on an exception session.rollback() and continue.
ProcessRecord(item, order) ==
    /\ phase = "loop"
    /\ \E r \in {update_or_create_event(tx, venue_cache, genre_cache, promoter_cache,
                                        item.rec, item.coordinates, order)} :
       \E existing \in {ExistingEvent(tx, item.rec)} :
       LET event_data == item.rec
           n == idx + 1
           commitNow == ~r.raised /\ n % CommitEvery = 0
           failed == r.raised \/ (commitNow /\ ~FlushOk(r.t))
       IN /\ idx' = n
          /\ tx' = IF failed THEN db ELSE IF commitNow THEN Flush(r.t) ELSE r.t
          /\ db' = IF commitNow /\ ~failed THEN Flush(r.t) ELSE db
          /\ venue_cache' = IF failed
                            THEN RollbackCache(r.venue_cache, r.t.venues, db.venues)
                            ELSE r.venue_cache
          /\ genre_cache' = IF failed
                            THEN RollbackCache(r.genre_cache, r.t.genres, db.genres)
                            ELSE r.genre_cache
          /\ promoter_cache' = IF failed
                               THEN RollbackCache(r.promoter_cache, r.t.promoters, db.promoters)
                               ELSE r.promoter_cache
          /\ lastUp' = [op |-> IF r.raised THEN "raised"
                               ELSE IF failed THEN "commit_failed"
                               ELSE IF r.is_new THEN "created" ELSE "updated",
                        rec |-> event_data,
                        coordinates |-> item.coordinates,
                        eid |-> r.eid,
                        genres |-> r.genres,
                        promoters |-> r.promoters,
                        preVenue |-> IF event_data.venue = NoVenue THEN NoRow
                                     ELSE VenueObject(tx, venue_cache, event_data.venue,
                                                      CityOf(event_data)),
                        preGenres |-> GenreNames(tx, existing.id),
                        prePromoters |-> PromoterNames(tx, existing.id),
                        preLinks |-> Links(tx, existing.id),
                        preJson |-> IF existing = NoRow THEN None
                                    ELSE existing.original_json]
    /\ UNCHANGED <<phase, run, batch, counts>>

\* After the loop: the final commit and session.close().  A commit that
\* fails raises out of scrape_and_update and nothing more is stored.
RunEnd ==
    /\ phase = "loop"
    /\ phase' = "idle"
    /\ db' = IF FlushOk(tx) THEN Flush(tx) ELSE db
    /\ tx' = db'
    /\ venue_cache' = EmptyMap
    /\ genre_cache' = EmptyMap
    /\ promoter_cache' = EmptyMap
    /\ counts' = Append(counts, Counts(db'))
    /\ idx' = 0
    /\ lastUp' = NoUpsert
    /\ UNCHANGED <<run, batch>>

OrdersOf(event_data) == Orders(SeqToSet(event_data.genres))

\* The loop fed with any records.
NextUpsert ==
    \/ RunStart
    \/ /\ idx < MaxRecords
       /\ \E item \in Items : \E order \in OrdersOf(item.rec) : ProcessRecord(item, order)
    \/ RunEnd

\* The loop fed with records that share venues, genres and promoters, long
\* enough for a record to follow a rollback that followed a created record.
MaxLoop == 3
SharingItems ==
    {[rec |-> r, coordinates |-> NoResult] : r \in {R_A1, R_A2, R_A3, R_NoDate, R_BadDate}}
NextSharing ==
    \/ RunStart
    \/ /\ idx < MaxLoop
       /\ \E item \in SharingItems : \E order \in OrdersOf(item.rec) :
             ProcessRecord(item, order)
    \/ RunEnd

\* The loop fed with the same batch in every run.
NextReplay ==
    \/ RunStart
    \/ /\ idx < Len(batch)
       /\ \E order \in OrdersOf(batch[idx + 1].rec) : ProcessRecord(batch[idx + 1], order)
    \/ idx = Len(batch) /\ RunEnd

-----------------------------------------------------------------------------
(***************************************************************************)
(* Part 5.  A whole run of scrape_and_update: fetch and parse, the date    *)
(* filter, the record loop with the geocode step, the final commit and the *)
(* pruning of old events.                                                  *)
(***************************************************************************)

\* date.toordinal(): the day number of a calendar date.
RECURSIVE DaysBeforeMonth(_, _)
DaysBeforeMonth(y, m) ==
    IF m = 1 THEN 0 ELSE DaysBeforeMonth(y, m - 1) + DaysInMonth(y, m - 1)
ToOrdinal(d) ==
    LET y == d[1] - 1
    IN  365 * y + (y \div 4) - (y \div 100) + (y \div 400)
        + DaysBeforeMonth(d[1], d[2]) + d[3]

\* SCRAPE_DAYS_AHEAD default, and the retention window of the pruning.
days_ahead == 14
RetentionDays == 180

\* The date filter: the records kept for the record loop.
KeptAlways(event, day) == TRUE
Kept(event, day) ==
    IF event.dateISO # NoDate
    THEN IF StrptimeOk(event.dateISO)
         THEN day <= ToOrdinal(event.dateISO)
              /\ ToOrdinal(event.dateISO) <= day + days_ahead
         ELSE TRUE
    ELSE TRUE
RECURSIVE DateFilter(_, _)
DateFilter(evs, day) ==
    IF evs = <<>> THEN <<>>
    ELSE IF Kept(Head(evs), day)
    THEN <<Head(evs)>> \o DateFilter(Tail(evs), day)
    ELSE DateFilter(Tail(evs), day)

\* The pruning: Event.date < cutoff_date matches no row whose date is NULL.
TooOldNever(e, day) == FALSE
TooOld(e, day) == e.date # NoDate /\ ToOrdinal(e.date) < day - RetentionDays
PruneWithVenues(t, day) ==
    [t EXCEPT !.events = {e \in @ : ~TooOld(e, day)}, !.venues = {}]
Prune(t, day) == [t EXCEPT !.events = {e \in @ : ~TooOld(e, day)}]

\* The records a fetched page can hold, and the days on which runs happen:
\* around the window of the event date and around the retention limit.
PipelineRecords == {R_A1, R_NoDate, R_BadDate}
Pages == UNION {[1..n -> PipelineRecords] : n \in 0..MaxRecords}
EventDay == ToOrdinal(D_Sep1)
Days ==
    {EventDay - days_ahead - 1, EventDay - days_ahead, EventDay, EventDay + 1,
     EventDay + 170, EventDay + RetentionDays, EventDay + RetentionDays + 1,
     EventDay + 200}
\* The provider's answers in a run.
PipelineOutcomes ==
    {o \in NetOutcomes : o.kind = "result" => (o.lat = 0 <=> o.type = <<"b", "a", "r">>)}

NoRun == [result |-> "none"]

InitPipeIdle ==
    /\ today = 0
    /\ all_events = <<>>
    /\ events = <<>>
    /\ venue_coords_cache = EmptyMap
    /\ outcome = <<>>
    /\ escaped = FALSE
    /\ lastRun = NoRun
    /\ geoLog = <<>>

\* "Load existing venues to check if we already have coordinates"
WithCoords(t) == {v \in t.venues : v.latitude # NullNum /\ v.longitude # NullNum}
LoadNoCoords(t) == EmptyMap
LoadCoords(t) ==
    [k \in {v.key : v \in WithCoords(t)} |->
        LET v == First({w \in WithCoords(t) : w.key = k})
        IN [lat |-> v.latitude[1], lon |-> v.longitude[1],
            display_name |-> v.display_name, approximate |-> v.is_approximate]]

\* The geocode step of the record loop: the coordinates handed to the
\* upsert, the two caches afterwards and the requests sent.
GeocodeStep(vcc, gc, event_data, o1, o2) ==
    LET venue_name == event_data.venue
        city == CityOf(event_data)
        cache_key == Key(venue_name, city)
    IN  IF venue_name # NoVenue /\ ~StrContains(S_TBA, venue_name)
        THEN IF cache_key \in DOMAIN vcc
             THEN [coordinates |-> vcc[cache_key], vcc |-> vcc, gc |-> gc,
                   reqs |-> <<>>]
             ELSE LET r == geocode_venue(gc, venue_name, city, o1, o2)
                  IN [coordinates |-> r.ret,
                      vcc |-> IF r.ret # NoResult THEN Put(vcc, cache_key, r.ret) ELSE vcc,
                      gc |-> r.cache, reqs |-> r.reqs]
        ELSE [coordinates |-> NoResult, vcc |-> vcc, gc |-> gc, reqs |-> <<>>]

\* fetch_html raises on any request or status error, and the exception
\* leaves scrape_and_update.
FetchNeverAborts(fetched) == FALSE
FetchAborts(fetched) == fetched = "error"

\* The try/except around one iteration of the record loop catches.
LoopLetsThrough == FALSE
LoopCatches == TRUE

\* scrape_and_update up to the record loop: EventScraper(), fetch_html,
\* parse_events, the date filter, the session, the DatabaseUpdater and the
\* coordinates of the stored venues.  A failed fetch ends the run here.
PipelineStart ==
    /\ phase = "idle"
    /\ run < MaxRuns
    /\ run' = run + 1
    /\ \E day \in Days, fetched \in {"ok", "error"}, page \in Pages :
          /\ day >= today
          /\ today' = day
          /\ IF FetchAborts(fetched)
             THEN /\ lastRun' = [result |-> "fetch_failed", fetched |-> fetched,
                                 before |-> db]
                  /\ UNCHANGED <<phase, all_events, events, venue_coords_cache, tx>>
             ELSE /\ lastRun' = [result |-> "running", fetched |-> fetched,
                                 before |-> db]
                  /\ phase' = "loop"
                  /\ all_events' = page
                  /\ events' = DateFilter(page, day)
                  /\ venue_coords_cache' = LoadCoords(db)
                  /\ tx' = db
    /\ geocode_cache' = EmptyMap
    /\ venue_cache' = EmptyMap
    /\ genre_cache' = EmptyMap
    /\ promoter_cache' = EmptyMap
    /\ idx' = 0
    /\ outcome' = <<>>
    /\ escaped' = FALSE
    /\ geoLog' = <<>>
    /\ lastUp' = NoUpsert
    /\ UNCHANGED <<db, batch, counts, client, cache, lastCall>>

\* One iteration of the record loop of a run: the geocode step (g is what
\* it gave under some answers of the provider), then the upsert with its
\* periodic commit, or the rollback.
PipelineRecord(g, order) ==
    /\ ~escaped
    /\ idx < Len(events)
    /\ ProcessRecord([rec |-> events[idx + 1], coordinates |-> g.coordinates], order)
    /\ venue_coords_cache' = g.vcc
    /\ geocode_cache' = g.gc
    /\ geoLog' = Append(geoLog, [reqs |-> g.reqs, coordinates |-> g.coordinates])
    /\ LET failed == lastUp'.op \in {"raised", "commit_failed"}
       IN /\ outcome' = Append(outcome, IF failed THEN "failed" ELSE "ok")
          /\ escaped' = (failed /\ ~LoopCatches)
    /\ UNCHANGED <<today, all_events, events, lastRun, client, cache, lastCall>>

\* After the loop: the final commit, then the pruning in a session of its
\* own.  An exception (one that left the loop, or a failed commit) leaves
\* scrape_and_update before the pruning.
PipelineEnd ==
    /\ phase = "loop"
    /\ escaped \/ idx = Len(events)
    /\ phase' = "idle"
    /\ LET committed == Flush(tx)
           result == IF escaped THEN "aborted"
                     ELSE IF ~FlushOk(tx) THEN "commit_failed" ELSE "done"
       IN /\ db' = IF result = "done" THEN Prune(committed, today) ELSE db
          /\ lastRun' = [result |-> result, fetched |-> lastRun.fetched,
                         before |-> lastRun.before,
                         committed |-> IF result = "done" THEN committed ELSE db,
                         all_events |-> all_events, events |-> events,
                         outcome |-> outcome]
    /\ tx' = db'
    /\ venue_cache' = EmptyMap
    /\ genre_cache' = EmptyMap
    /\ promoter_cache' = EmptyMap
    /\ venue_coords_cache' = EmptyMap
    /\ all_events' = <<>>
    /\ events' = <<>>
    /\ outcome' = <<>>
    /\ escaped' = FALSE
    /\ geoLog' = <<>>
    /\ idx' = 0
    /\ lastUp' = NoUpsert
    /\ UNCHANGED <<run, batch, counts, today, geoVars>>

NextPipeline ==
    \/ PipelineStart
    \/ /\ phase = "loop"
       /\ idx < Len(events)
       /\ \E g \in {GeocodeStep(venue_coords_cache, geocode_cache, events[idx + 1], o1, o2) :
                        o1, o2 \in PipelineOutcomes} :
             \E order \in OrdersOf(events[idx + 1]) : PipelineRecord(g, order)
    \/ PipelineEnd

-----------------------------------------------------------------------------
(***************************************************************************)
(* Part 6.  The extractors: EventScraper.parse_events with                 *)
(* parse_single_event (the one scrape_and_update uses) and                 *)
(* parse_19hz_html of parse_19hz.py.  A row is described by what the       *)
(* extractors read from it.                                                *)
(***************************************************************************)

\* Number of rows of a document.
MaxRows == 2

\* year = 2025  # Default
DefaultYear == 2025

S_none1 == <<"d", "i", "s", "p", "l", "a", "y", ":", "n", "o", "n", "e">>
S_none2 == <<"d", "i", "s", "p", "l", "a", "y", ":", " ", "n", "o", "n", "e">>
NoStyle == <<>>

\* The date cell does not match (\w{3}): (\w{3}) (\d{1,2}); no date column.
NoMatch == [match |-> FALSE]
NoYear == 0

\* months.get(month_abbr, 1)
MonthNum(month_abbr) ==
    CASE month_abbr = "Jan" -> 1 [] month_abbr = "Feb" -> 2 [] month_abbr = "Mar" -> 3
      [] month_abbr = "Apr" -> 4 [] month_abbr = "May" -> 5 [] month_abbr = "Jun" -> 6
      [] month_abbr = "Jul" -> 7 [] month_abbr = "Aug" -> 8 [] month_abbr = "Sep" -> 9
      [] month_abbr = "Oct" -> 10 [] month_abbr = "Nov" -> 11 [] month_abbr = "Dec" -> 12
      [] OTHER -> 1

\* The rows of the model.  tds: number of <td> cells; link: the row holds a
\* hyperlink (the title link); style: the style attribute of the <tr>;
\* date: what the date cell matches; year: the year in the last cell, if
\* any; td6: the date of the seventh cell (YYYY/MM/DD), if any; raises:
\* reading the row raises an exception.
Row_Ok ==
    [title |-> "A", tds |-> 7, link |-> TRUE, style |-> NoStyle,
     date |-> [match |-> TRUE, day_abbr |-> "Mon", month_abbr |-> "Sep", day_num |-> 1],
     year |-> 2025, td6 |-> <<2025, 9, 1>>, raises |-> FALSE]
Row_Hidden == [Row_Ok EXCEPT !.title = "H", !.style = S_none1]
Row_Hidden2 == [Row_Ok EXCEPT !.title = "H2", !.style = S_none2]
Row_Short == [Row_Ok EXCEPT !.title = "S", !.tds = 3]
Row_Five == [Row_Ok EXCEPT !.title = "F", !.tds = 5]
Row_NoLink == [Row_Ok EXCEPT !.title = "N", !.link = FALSE]
Row_Feb30 ==
    [Row_Ok EXCEPT !.title = "C",
                   !.date = [match |-> TRUE, day_abbr |-> "Sun", month_abbr |-> "Feb",
                             day_num |-> 30],
                   !.td6 = <<2025, 2, 30>>]
Row_NoDate == [Row_Ok EXCEPT !.title = "B", !.date = NoMatch, !.td6 = NoDate]
Row_Raises == [Row_Ok EXCEPT !.title = "R", !.raises = TRUE]
Rows ==
    {Row_Ok, Row_Hidden, Row_Hidden2, Row_Short, Row_Five, Row_NoLink, Row_Feb30,
     Row_NoDate, Row_Raises}
Documents == UNION {[1..n -> Rows] : n \in 0..MaxRows}

\* event_rows of parse_events: the rows with a link and at least 4 cells.
IsEventRow(row) == row.link /\ row.tds >= 4

\* The date part of parse_single_event: dateISO from the date cell, with
\* the year of the last cell when the row has more than 5 cells.
DateISO(row) ==
    IF row.date.match
    THEN LET year == IF row.tds > 5 /\ row.year # NoYear THEN row.year ELSE DefaultYear
         IN <<year, MonthNum(row.date.month_abbr), row.date.day_num>>
    ELSE NoDate

\* EventScraper.parse_single_event: the record of a row.
parse_single_event(row) ==
    [title |-> row.title, url |-> "u", dateISO |-> DateISO(row),
     dayLabel |-> IF row.date.match THEN "label" ELSE None,
     timeRange |-> None, venue |-> NoVenue, city |-> NoVenue,
     genres |-> <<>>, price |-> None, age |-> None,
     promoters |-> <<>>, extraLinks |-> <<>>,
     hidden |-> FALSE]

\* parse_19hz_html: the hidden test, and the record of a row.
IsHidden(style) == StrContains(S_none2, style) \/ StrContains(S_none1, style)
include_hidden == TRUE
Parse19hzRecord(row) ==
    [title |-> row.title, url |-> IF row.link THEN "u" ELSE None,
     dateISO |-> row.td6,
     dayLabel |-> IF row.date.match THEN "label" ELSE None,
     timeRange |-> None, venue |-> NoVenue, city |-> NoVenue,
     genres |-> <<>>, price |-> None, age |-> None,
     promoters |-> <<>>, extraLinks |-> <<>>,
     hidden |-> IsHidden(row.style)]

InitParseIdle ==
    /\ parser = "none"
    /\ all_rows = <<>>
    /\ rowNo = 0
    /\ parsed = <<>>
    /\ parseFailed = FALSE

InitParse ==
    /\ parser \in {"parse_events", "parse_19hz_html"}
    /\ all_rows \in Documents
    /\ rowNo = 0
    /\ parsed = <<>>
    /\ parseFailed = FALSE

\* parse_events, one row: rows that are no event rows are left out; an
\* exception in parse_single_event is logged and the loop continues.
ParseEventsRow ==
    /\ parser = "parse_events"
    /\ rowNo < Len(all_rows)
    /\ rowNo' = rowNo + 1
    /\ LET row == all_rows[rowNo + 1]
       IN parsed' = IF IsEventRow(row) /\ ~row.raises
                    THEN Append(parsed, [n |-> rowNo + 1, rec |-> parse_single_event(row)])
                    ELSE parsed
    /\ UNCHANGED <<parser, all_rows, parseFailed>>

\* parse_19hz_html, one row of its loop; nothing catches an exception.
Parse19hzRow ==
    /\ parser = "parse_19hz_html"
    /\ ~parseFailed
    /\ rowNo < Len(all_rows)
    /\ rowNo' = rowNo + 1
    /\ LET row == all_rows[rowNo + 1]
           skipped == (~include_hidden /\ IsHidden(row.style)) \/ row.tds < 7
       IN /\ parsed' = IF ~skipped /\ ~row.raises
                       THEN Append(parsed, [n |-> rowNo + 1, rec |-> Parse19hzRecord(row)])
                       ELSE parsed
          /\ parseFailed' = (~skipped /\ row.raises)
    /\ UNCHANGED <<parser, all_rows>>

NextParse == ParseEventsRow \/ Parse19hzRow

-----------------------------------------------------------------------------
(***************************************************************************)
(* Part 7.  run_scraper.py: trigger_scrape of the cron job.                *)
(***************************************************************************)

max_retries == 3

\* What a request of the cron job can meet: a response with a status, or an
\* exception of requests (connection error, timeout).  Of the body of an
\* answer to the scrape request only whether response.json() can parse it
\* matters; the body of a health answer is not read.
NoResponse == [kind |-> "none"]
NoError == [exc |-> "none"]
HealthAnswers ==
    {[kind |-> "response", status |-> 200], [kind |-> "response", status |-> 503],
     [kind |-> "exception", exc |-> "ConnectionError"]}
PostAnswers ==
    {[kind |-> "response", status |-> 200, json |-> TRUE],
     [kind |-> "response", status |-> 200, json |-> FALSE],
     [kind |-> "response", status |-> 500, json |-> TRUE],
     [kind |-> "exception", exc |-> "Timeout"]}

\* response.raise_for_status()
RaisesForStatusNever(status) == FALSE
RaisesForStatus(status) == status >= 400 /\ status < 600

InitCronIdle ==
    /\ attempt = 0
    /\ cron = "idle"
    /\ wake_response = NoResponse
    /\ cronLog = <<>>
    /\ waits = 0
    /\ cronError = NoError

InitCron ==
    /\ attempt = 0
    /\ cron = "health"
    /\ wake_response = NoResponse
    /\ cronLog = <<>>
    /\ waits = 0
    /\ cronError = NoError

\* The except clause of an attempt: wait before the retry, or re-raise
\* after the last attempt.
AttemptFailed(health, post, error) ==
    /\ cronLog' = Append(cronLog, [health |-> health, post |-> post, error |-> error])
    /\ wake_response' = NoResponse
    /\ IF attempt < max_retries - 1
       THEN cron' = "sleep10" /\ UNCHANGED cronError
       ELSE cron' = "raised" /\ cronError' = error
    /\ UNCHANGED <<attempt, waits>>

\* requests.get(f"{service_url}/health", timeout=60): its status is logged,
\* not tested.
CronHealth ==
    /\ cron = "health"
    /\ \E h \in HealthAnswers :
          IF h.kind = "exception"
          THEN AttemptFailed(h, NoResponse, [exc |-> h.exc, attempt |-> attempt])
          ELSE /\ wake_response' = h
               /\ cron' = "sleep2"
               /\ UNCHANGED <<attempt, cronLog, waits, cronError>>

\* time.sleep(2)
CronSleep2 ==
    /\ cron = "sleep2"
    /\ cron' = "post"
    /\ UNCHANGED <<attempt, wake_response, cronLog, waits, cronError>>

\* requests.post(f"{service_url}/api/scrape", ...), raise_for_status,
\* response.json() and return True.
CronPost ==
    /\ cron = "post"
    /\ \E answer \in PostAnswers :
          IF answer.kind = "exception"
          THEN AttemptFailed(wake_response, answer,
                             [exc |-> answer.exc, attempt |-> attempt])
          ELSE IF RaisesForStatus(answer.status)
          THEN AttemptFailed(wake_response, answer,
                             [exc |-> "HTTPError", attempt |-> attempt])
          ELSE IF ~answer.json
          THEN AttemptFailed(wake_response, answer,
                             [exc |-> "JSONDecodeError", attempt |-> attempt])
          ELSE /\ cronLog' = Append(cronLog, [health |-> wake_response, post |-> answer,
                                              error |-> NoError])
               /\ cron' = "returned_true"
               /\ wake_response' = NoResponse
               /\ UNCHANGED <<attempt, waits, cronError>>

\* time.sleep(10), then the next attempt.
CronSleep10 ==
    /\ cron = "sleep10"
    /\ waits' = waits + 1
    /\ attempt' = attempt + 1
    /\ cron' = "health"
    /\ UNCHANGED <<wake_response, cronLog, cronError>>

NextCron == CronHealth \/ CronSleep2 \/ CronPost \/ CronSleep10

-----------------------------------------------------------------------------
(***************************************************************************)
(* Properties of the upsert.  lastUp describes the last iteration of the   *)
(* record loop: the record, the coordinates it was upserted with, and what *)
(* the session held for its venue and its event before the call.           *)
(***************************************************************************)

Upserted == lastUp.op \in {"created", "updated"}
\* The venue object of the last record, as the session holds it now.
VenueAfter == VenueObject(tx, venue_cache, lastUp.rec.venue, CityOf(lastUp.rec))
EventAfter == First({e \in tx.events : e.id = lastUp.eid})
NamesOf(names) == SeqToSet(names) \ {""}

\* C3: processing the same batch a second time leaves the numbers of event,
\* venue, genre and promoter rows exactly as they were after the first
\* processing, also for records with no title, no date or no venue.
C3_Idempotent == Len(counts) >= 2 => counts[2] = counts[1]

\* C4: once a venue has non-null coordinates, no later upsert of a record for
\* its (name, city), with no coordinates or with different ones, changes its
\* latitude, longitude, display name or approximate flag.
C4_CoordinatesPreserved ==
    (/\ Upserted
     /\ lastUp.preVenue # NoRow
     /\ lastUp.preVenue.latitude # NullNum) =>
        /\ VenueAfter.latitude = lastUp.preVenue.latitude
        /\ VenueAfter.longitude = lastUp.preVenue.longitude
        /\ VenueAfter.display_name = lastUp.preVenue.display_name
        /\ VenueAfter.is_approximate = lastUp.preVenue.is_approximate

\* C5: when a record is upserted with resolved coordinates and its venue
\* already exists without coordinates (from an earlier run, or created
\* earlier in the same run), the venue has those coordinates after the call.
C5_CoordinatesAttached ==
    (/\ Upserted
     /\ lastUp.coordinates # NoResult
     /\ lastUp.preVenue # NoRow
     /\ lastUp.preVenue.latitude = NullNum) =>
        /\ VenueAfter.latitude = Num(lastUp.coordinates.lat)
        /\ VenueAfter.longitude = Num(lastUp.coordinates.lon)
        /\ VenueAfter.display_name = lastUp.coordinates.display_name
        /\ VenueAfter.is_approximate = lastUp.coordinates.approximate

\* C6: after a record re-sights an existing event, the event's genre set is
\* exactly the genre set of the record, not the union with the genres it had
\* before; the same for its promoter set.
C6_GenresReplaced ==
    lastUp.op = "updated" =>
        /\ GenreNames(tx, lastUp.eid) = NamesOf(lastUp.rec.genres)
        /\ PromoterNames(tx, lastUp.eid) = NamesOf(lastUp.rec.promoters)
C6_Witness ==
    /\ run = 2
    /\ lastUp.op = "updated"
    /\ lastUp.rec = R_A2
    /\ lastUp.preGenres = {"Techno", "House"}
    /\ lastUp.prePromoters = {"P"}
    /\ GenreNames(tx, lastUp.eid) = {"Dub"}
    /\ PromoterNames(tx, lastUp.eid) = {}

\* C7: on the update path the event's extra links and its stored original
\* payload are left as they were, whatever the incoming record contains.
C7_LinksAndPayloadUntouched ==
    lastUp.op = "updated" =>
        /\ Links(tx, lastUp.eid) = lastUp.preLinks
        /\ EventAfter.original_json = lastUp.preJson
C7_Witness ==
    /\ lastUp.op = "updated"
    /\ lastUp.rec = R_A2
    /\ lastUp.preLinks = {[text |-> "tickets", href |-> "h1"]}
    /\ lastUp.preJson = R_A1
    /\ Links(tx, lastUp.eid) = lastUp.preLinks
    /\ EventAfter.original_json = R_A1

\* C22: in every run, whatever records it processes and whichever of them
\* fail and are rolled back, the session and the store hold at most one
\* venue row per (name, city), one genre row per name and one promoter row
\* per name.
OneRowPerKey(t) ==
    /\ UniqueKeys(t.venues) /\ UniqueKeys(t.genres) /\ UniqueKeys(t.promoters)
    /\ \A v, w \in t.venues : (v.name = w.name /\ v.city = w.city) => v = w
C22_OneRowPerKey == OneRowPerKey(tx) /\ OneRowPerKey(db)
\* a record was rolled back after a created one, and the next record got
\* its venue, genre and promoter from the caches
C22_Witness ==
    /\ phase = "loop" /\ idx = 3
    /\ db = EmptyTables
    /\ lastUp.op = "created" /\ lastUp.rec = R_NoDate
    /\ lastUp.preVenue # NoRow /\ lastUp.preVenue.name = S_tba
    /\ Cardinality(tx.venues) = 1 /\ Cardinality(tx.genres) = 1
    /\ Cardinality(tx.promoters) = 1

\* C23: after every upsert, created or updated, whatever the record lists
\* (the same genre or the same promoter more than once included), the
\* event's genres hold no name twice and its promoters hold no name twice.
C23_NoDuplicateNames ==
    Upserted => Twice(lastUp.genres) = {} /\ Twice(lastUp.promoters) = {}

-----------------------------------------------------------------------------
(***************************************************************************)
(* Properties of a run.  lastRun describes the last run that ended: how it *)
(* ended, the store before it and after its final commit, its records and  *)
(* how each of them fared.                                                 *)
(***************************************************************************)

Stored(t, event_data) ==
    \E e \in t.events : e.title = event_data.title /\ e.date = event_data.dateISO
AgeInDays(e) == today - ToOrdinal(e.date)

\* C14: an exception raised while geocoding or upserting a record is caught
\* in the loop; no exception leaves the loop and every record of the batch
\* is processed.
C14_LoopContinues ==
    /\ ~escaped
    /\ lastRun.result # "aborted"
    /\ lastRun.result \in {"done", "commit_failed"} =>
          Len(lastRun.outcome) = Len(lastRun.events)
C14_Witness ==
    /\ lastRun.result = "done"
    /\ lastRun.events = <<R_BadDate, R_A1>>
    /\ lastRun.outcome = <<"failed", "ok">>
    /\ Stored(db, R_A1)

\* C15: when a record fails, only its own changes are rolled back: what the
\* records processed successfully in the run created or updated is in the
\* store when the run has made its final commit.
C15_OnlyFailedRecordRolledBack ==
    lastRun.result = "done" =>
        \A j \in 1..Len(lastRun.events) :
            lastRun.outcome[j] = "ok" => Stored(lastRun.committed, lastRun.events[j])

\* C16: the pruning of a run deletes every stored event dated more than 180
\* days before the current date and no other event: not one dated within
\* the last 180 days, not one without a date.
C16_PruneOlderThanRetention ==
    lastRun.result = "done" =>
        db.events = {e \in lastRun.committed.events :
                        e.date = NoDate \/ AgeInDays(e) <= 180}
C16_Witness ==
    /\ lastRun.result = "done"
    /\ today = EventDay + 181
    /\ \E e \in lastRun.committed.events : e.date = D_Sep1 /\ e \notin db.events
    /\ \E e \in lastRun.committed.events : e.date = NoDate /\ e \in db.events

\* C17: the date filter passes a record if and only if it has no dateISO,
\* its dateISO is not a calendar date, or today <= date <= today +
\* days_ahead; the order of the records is kept.
InWindow(event_data) ==
    \/ event_data.dateISO = NoDate
    \/ ~StrptimeOk(event_data.dateISO)
    \/ /\ today <= ToOrdinal(event_data.dateISO)
       /\ ToOrdinal(event_data.dateISO) <= today + days_ahead
C17_FilterWindow == phase = "loop" => events = SelectSeq(all_events, InWindow)
C17_Witness ==
    /\ phase = "loop"
    /\ today = EventDay + 1
    /\ all_events = <<R_A1, R_BadDate>>
    /\ events = <<R_BadDate>>

\* C19: a run whose fetch of the page failed ends at once: the store is as
\* it was before the run, and no pruning has taken place.
C19_FetchFailureLeavesStore ==
    (lastRun.result # "none" /\ lastRun.fetched = "error") =>
        /\ lastRun.result = "fetch_failed"
        /\ phase = "idle"
        /\ db = lastRun.before
C19_Witness ==
    /\ lastRun.result = "fetch_failed"
    /\ today > EventDay + RetentionDays
    /\ \E e \in db.events : e.date = D_Sep1
    /\ db = lastRun.before

\* The coordinates a venue row holds, as scrape_and_update reads them.
CoordsOf(v) ==
    [lat |-> v.latitude[1], lon |-> v.longitude[1],
     display_name |-> v.display_name, approximate |-> v.is_approximate]
\* The venue rows of the store at the start of the run that hold coordinates
\* for the (venue, city) of a record.
StoredWithCoords(event_data) ==
    {v \in WithCoords(lastRun.before) :
        v.name = event_data.venue /\ v.city = CityOf(event_data)}
\* The earlier records of the run, for the same (venue, city), whose geocode
\* step sent a request and got coordinates.
GeocodedEarlier(n) ==
    {j \in 1..(n - 1) :
        /\ events[j].venue = events[n].venue
        /\ CityOf(events[j]) = CityOf(events[n])
        /\ geoLog[j].reqs # <<>>
        /\ geoLog[j].coordinates # NoResult}

\* C21: in a run no geocoding request is sent for a record whose
\* (venue, city) held coordinates in the store when the run started, or was
\* geocoded with success for an earlier record of the run; the record is
\* upserted with the stored, respectively the earlier, coordinates.
C21_KnownVenueNotRequested ==
    phase = "loop" =>
        \A n \in 1..Len(geoLog) :
            (events[n].venue # NoVenue
             /\ (StoredWithCoords(events[n]) # {} \/ GeocodedEarlier(n) # {}))
            => /\ geoLog[n].reqs = <<>>
               /\ IF StoredWithCoords(events[n]) # {}
                  THEN geoLog[n].coordinates \in
                           {CoordsOf(v) : v \in StoredWithCoords(events[n])}
                  ELSE geoLog[n].coordinates \in
                           {geoLog[j].coordinates : j \in GeocodedEarlier(n)}
C21_Witness ==
    /\ phase = "loop"
    /\ Len(geoLog) = 2
    /\ StoredWithCoords(events[1]) # {}
    /\ geoLog[1].reqs = <<>> /\ geoLog[1].coordinates # NoResult
    /\ events[2].venue = S_tba
    /\ geoLog[2].reqs # <<>>

\* C24: in the committed store, after any runs, rollbacks of records and
\* prunings, every event that references a venue references a venue row of
\* the store.
C24_VenueReferencesResolve ==
    \A e \in db.events : e.venue_id # 0 => \E v \in db.venues : v.id = e.venue_id
\* a run with a rolled back record and a pruning that deleted an event
\* has ended, and the store holds an event with a venue
C24_Witness ==
    /\ phase = "idle"
    /\ lastRun.result = "done"
    /\ \E n \in 1..Len(lastRun.outcome) : lastRun.outcome[n] = "failed"
    /\ lastRun.committed.events # db.events
    /\ \E e \in db.events : e.venue_id # 0

\* C29: after the pruning of a run, no event_links row and no row of
\* event_genres or event_promoters refers to an event the pruning deleted.
C29_PruneRemovesDependents ==
    (phase = "idle" /\ lastRun.result = "done") =>
        \A e \in lastRun.committed.events \ db.events :
            /\ \A l \in db.event_links : l.event_id # e.id
            /\ \A x \in db.event_genres \cup db.event_promoters : x[1] # e.id

-----------------------------------------------------------------------------
(***************************************************************************)
(* Properties of the extractors.  parsed holds, for every record emitted,  *)
(* the number of its row in the document.                                  *)
(***************************************************************************)

\* The upsert raises on a record emitted by parse_events.
UpsertRaises(event_data) ==
    update_or_create_event(EmptyTables, EmptyMap, EmptyMap, EmptyMap,
                           event_data, NoResult, <<>>).raised

\* C25: the dateISO of every emitted record is absent or a valid calendar
\* date, and a record of parse_events whose dateISO is absent or no valid
\* date does not make the upsert raise (the date filter never raises: Kept
\* is defined for every record).
C25_DatesValidOrAbsent ==
    \A j \in 1..Len(parsed) :
        LET event_data == parsed[j].rec
        IN /\ event_data.dateISO = NoDate \/ StrptimeOk(event_data.dateISO)
           /\ (parser = "parse_events"
               /\ (event_data.dateISO = NoDate \/ ~StrptimeOk(event_data.dateISO)))
              => /\ Kept(event_data, EventDay) \in BOOLEAN
                 /\ ~UpsertRaises(event_data)

\* The number of cells an extractor expects in a row.
ExpectedCells == IF parser = "parse_events" THEN 4 ELSE 7
\* The rows that are neither short nor raise.
OtherRows == {n \in 1..Len(all_rows) : all_rows[n].tds >= ExpectedCells /\ ~all_rows[n].raises}

\* C26: no exception leaves the extractor, and when it has gone through
\* the document it has emitted, in document order, exactly the rows that
\* have the expected number of cells and whose parsing did not raise.
C26_SkipsAndKeepsOrder ==
    /\ ~parseFailed
    /\ rowNo = Len(all_rows) =>
          /\ {parsed[j].n : j \in 1..Len(parsed)} = OtherRows
          /\ \A j, k \in 1..Len(parsed) : j < k => parsed[j].n < parsed[k].n

\* The style attribute says display:none.
DisplayNone(style) == style \in {S_none1, S_none2}

\* C27: the hidden flag of every emitted record is true exactly when the
\* style of its row says display:none, and a row that says so is emitted
\* like any other row.
C27_HiddenFlag ==
    /\ \A j \in 1..Len(parsed) :
          parsed[j].rec.hidden = DisplayNone(all_rows[parsed[j].n].style)
    /\ \A n \in 1..rowNo :
          (DisplayNone(all_rows[n].style) /\ n \in OtherRows /\ all_rows[n].link)
          => \E j \in 1..Len(parsed) : parsed[j].n = n

-----------------------------------------------------------------------------
(***************************************************************************)
(* Properties of the cron trigger.                                         *)
(***************************************************************************)

\* An attempt succeeded: its health check got a response (whose status the
\* code does not test) and its scrape request was answered with a success
\* status and a body that parses.
SuccessStatus(a) ==
    a.post.kind = "response" /\ a.post.status >= 200 /\ a.post.status < 300
Succeeded(a) ==
    /\ a.health.kind = "response"
    /\ SuccessStatus(a) /\ a.post.json

\* C30: trigger_scrape makes at most 3 attempts; only its last attempt can
\* be one whose health check and scrape request both succeeded, and then
\* it has returned True; it returns True only after a scrape request that
\* was answered with a success status; it has slept before every attempt
\* but the first; and after a third failed attempt it raises that
\* attempt's error.
C30_CronRetries ==
    /\ Len(cronLog) <= 3
    /\ attempt <= 2
    /\ \A n \in 1..Len(cronLog) :
          Succeeded(cronLog[n]) => (n = Len(cronLog) /\ cron = "returned_true")
    /\ cron = "returned_true" =>
          /\ cronLog # <<>>
          /\ SuccessStatus(cronLog[Len(cronLog)])
          /\ Succeeded(cronLog[Len(cronLog)])
    /\ cron \in {"health", "sleep2", "post"} =>
          (waits = attempt /\ Len(cronLog) = attempt)
    /\ cron = "sleep10" => Len(cronLog) = attempt + 1
    /\ cron = "raised" =>
          /\ Len(cronLog) = 3
          /\ \A n \in 1..3 : ~Succeeded(cronLog[n])
          /\ cronError = cronLog[3].error
          /\ cronError # NoError
          /\ waits = 2
\* C30 witness: the third attempt succeeded after two failed ones, the
\* second of them with a health check answered 503 and a scrape request
\* answered 500.
C30_Witness ==
    /\ cron = "returned_true"
    /\ Len(cronLog) = 3
    /\ cronLog[2].health.kind = "response" /\ cronLog[2].health.status = 503
    /\ cronLog[2].post.kind = "response" /\ cronLog[2].post.status = 500
    /\ waits = 2

-----------------------------------------------------------------------------
(***************************************************************************)
(* Specifications.                                                         *)
(***************************************************************************)

InitSpecServer == InitServer /\ InitGeoIdle /\ InitRateIdle /\ InitStoreIdle /\ InitPipeIdle /\ InitParseIdle /\ InitCronIdle
NextSpecServer == NextServer /\ UNCHANGED <<geoVars, rateVars, storeVars, pipeVars, parseVars, cronVars>>
SpecServer == InitSpecServer /\ [][NextSpecServer]_vars

InitSpecGeo == InitServer /\ InitGeo /\ InitRateIdle /\ InitStoreIdle /\ InitPipeIdle /\ InitParseIdle /\ InitCronIdle
NextSpecGeo == NextGeo /\ UNCHANGED <<serverVars, rateVars, storeVars, pipeVars, parseVars, cronVars>>
SpecGeo == InitSpecGeo /\ [][NextSpecGeo]_vars

InitSpecUpsert == InitServer /\ InitGeoIdle /\ InitRateIdle /\ InitStoreIdle /\ InitPipeIdle /\ InitParseIdle /\ InitCronIdle
NextSpecUpsert == NextUpsert /\ UNCHANGED <<serverVars, geoVars, rateVars, pipeVars, parseVars, cronVars>>
SpecUpsert == InitSpecUpsert /\ [][NextSpecUpsert]_vars

InitSpecReplay == InitServer /\ InitGeoIdle /\ InitRateIdle /\ InitReplay /\ InitPipeIdle /\ InitParseIdle /\ InitCronIdle
NextSpecReplay == NextReplay /\ UNCHANGED <<serverVars, geoVars, rateVars, pipeVars, parseVars, cronVars>>
SpecReplay == InitSpecReplay /\ [][NextSpecReplay]_vars

InitSpecSharing == InitStoreIdle /\ InitServer /\ InitGeoIdle /\ InitRateIdle /\ InitPipeIdle /\ InitParseIdle /\ InitCronIdle
NextSpecSharing == NextSharing /\ UNCHANGED <<serverVars, geoVars, rateVars, pipeVars, parseVars, cronVars>>
SpecSharing == InitSpecSharing /\ [][NextSpecSharing]_vars

InitSpecParse ==
    InitParse /\ InitServer /\ InitGeoIdle /\ InitRateIdle /\ InitStoreIdle /\ InitPipeIdle /\ InitCronIdle
NextSpecParse ==
    NextParse /\ UNCHANGED <<serverVars, geoVars, rateVars, storeVars, pipeVars, cronVars>>
SpecParse == InitSpecParse /\ [][NextSpecParse]_vars

InitSpecCron ==
    /\ InitCron /\ InitServer /\ InitGeoIdle /\ InitRateIdle /\ InitStoreIdle
    /\ InitPipeIdle /\ InitParseIdle
NextSpecCron ==
    NextCron /\ UNCHANGED <<serverVars, geoVars, rateVars, storeVars, pipeVars, parseVars>>
SpecCron == InitSpecCron /\ [][NextSpecCron]_vars

InitSpecRate == InitServer /\ InitGeoIdle /\ InitRate /\ InitStoreIdle /\ InitPipeIdle /\ InitParseIdle /\ InitCronIdle
NextSpecRate == NextRate /\ UNCHANGED <<serverVars, geoVars, storeVars, pipeVars, parseVars, cronVars>>
SpecRate == InitSpecRate /\ [][NextSpecRate]_vars

InitSpecPipeline == InitServer /\ InitGeoIdle /\ InitRateIdle /\ InitStoreIdle /\ InitPipeIdle /\ InitParseIdle /\ InitCronIdle
NextSpecPipeline == NextPipeline /\ UNCHANGED <<serverVars, rateVars, parseVars, cronVars>>
SpecPipeline == InitSpecPipeline /\ [][NextSpecPipeline]_vars

\* The event loop resumes a task that is ready, and a run ends: its
\* requests have timeouts and its loops are over finite lists.
PeriodicStep ==
    /\ PeriodicBegin \/ PeriodicEnd \/ ScrapeStage(Periodic)
    /\ UNCHANGED <<geoVars, rateVars, storeVars, pipeVars, parseVars, cronVars>>
OtherTaskStep ==
    /\ \/ InitialScrapeBegin
       \/ InitialScrapeEnd
       \/ \E r \in Requests : TriggerScrapeBegin(r) \/ TriggerScrapeEnd(r)
       \/ \E t \in Tasks \ {Periodic} : ScrapeStage(t)
    /\ UNCHANGED <<geoVars, rateVars, storeVars, pipeVars, parseVars, cronVars>>
SpecServerFair ==
    /\ InitSpecServer
    /\ [][NextSpecServer]_vars
    /\ WF_vars(PeriodicStep)
    /\ WF_vars(OtherTaskStep)

====
